---- MODULE Spec2Model ----
(***************************************************************************)
(* A model of the precision-controlled square-root program                 *)
(* (src/Perhitungan.cpp): main's pipeline (set precision, parse, build the *)
(* reference at elevated precision, seed, iterate, report) and the two     *)
(* iteration schemes newton_heron and reciprocal_sqrt.                     *)
(*                                                                         *)
(* An mpreal is modelled as a binary floating-point number m * 2^e with a  *)
(* mantissa of at most p bits (p the precision in force), every operation  *)
(* rounded to nearest, ties to even, as MPFR does.  Values are kept in the *)
(* canonical form "m odd, or m = 0 and e = 0", so equality of values is    *)
(* equality of records.                                                    *)
(***************************************************************************)
EXTENDS Integers, Sequences, FiniteSets, TLC

(***************************************************************************)
(* Bounds of the model.                                                    *)
(***************************************************************************)
MaxIter == 5

\* clicks on Compute followed in the web form
MaxClicks == 3

\* uses of the Copy button followed between two clearings of the result
MaxCopies == 1

(***************************************************************************)
(* Program constants.                                                      *)
(***************************************************************************)
\* log2(10) = 3.3219281 as the fraction LOG2_10_Num / LOG2_10_Den
LOG2_10_Num == 33219281
LOG2_10_Den == 10000000
extra_bits == 64

(***************************************************************************)
(* Integer helpers.                                                        *)
(***************************************************************************)
AbsInt(n) == IF n < 0 THEN -n ELSE n

SignInt(n) == IF n < 0 THEN -1 ELSE IF n = 0 THEN 0 ELSE 1

MinInt(a, b) == IF a < b THEN a ELSE b

RECURSIVE BitLen(_)
BitLen(n) == IF n = 0 THEN 0 ELSE 1 + BitLen(n \div 2)

RECURSIVE ISqrtBits(_, _, _)
ISqrtBits(z, s, b) ==
    IF b = 0 THEN s
    ELSE IF (s + b) * (s + b) <= z THEN ISqrtBits(z, s + b, b \div 2)
    ELSE ISqrtBits(z, s, b \div 2)

\* floor(sqrt(z)) for z >= 0, one bit at a time from the leading bit down
ISqrt(z) == ISqrtBits(z, 0, 2 ^ ((BitLen(z) + 1) \div 2))

\* C++ integer division: the quotient is truncated towards zero
TruncDiv(n, d) == IF n >= 0 THEN n \div d ELSE -((-n) \div d)

(***************************************************************************)
(* mpreal values.                                                          *)
(***************************************************************************)
Zero == [m |-> 0, e |-> 0]

RECURSIVE Norm(_, _)
Norm(m, e) ==
    IF m = 0 THEN Zero
    ELSE IF m % 2 = 0 THEN Norm(m \div 2, e + 1)
    ELSE [m |-> m, e |-> e]

One == Norm(1, 0)

Half == Norm(1, -1)

\* the position just above the leading bit: 2^(Top-1) <= |x| < 2^Top
Top(x) == x.e + BitLen(AbsInt(x.m))

FNeg(x) == [m |-> -(x.m), e |-> x.e]

\* abs(mpreal)
FAbs(x) == [m |-> AbsInt(x.m), e |-> x.e]

IsZero(x) == x.m = 0

IsNeg(x) == x.m < 0

\* The value s * (n / d) * 2^e (n >= 0, d > 0, s the sign) rounded to p bits,
\* to nearest, ties to even (MPFR_RNDN, mpreal's default rounding mode).
RoundQ(s, n, d, e, p) ==
    IF n = 0 \/ s = 0 THEN Zero
    ELSE
      LET t  == BitLen(n) - BitLen(d)
          k0 == p - t
          N0 == IF k0 >= 0 THEN n * (2 ^ k0) ELSE n
          D0 == IF k0 >= 0 THEN d ELSE d * (2 ^ (-k0))
          k  == IF N0 \div D0 >= 2 ^ p THEN k0 - 1 ELSE k0
          N  == IF k >= 0 THEN n * (2 ^ k) ELSE n
          D  == IF k >= 0 THEN d ELSE d * (2 ^ (-k))
          q  == N \div D
          r  == N % D
          up == (2 * r > D) \/ (2 * r = D /\ q % 2 = 1)
          qq == IF up THEN q + 1 ELSE q
      IN  Norm(s * qq, e - k)

\* a value re-rounded to p bits
FRound(x, p) == RoundQ(SignInt(x.m), AbsInt(x.m), 1, x.e, p)

\* x + y at p bits.  Both operands hold at most p bits (mpreal gives a result
\* the larger precision of its operands), so an operand below a quarter of the
\* other's last place leaves the other unchanged.
FAdd(x, y, p) ==
    IF IsZero(x) THEN FRound(y, p)
    ELSE IF IsZero(y) THEN FRound(x, p)
    ELSE IF Top(y) <= Top(x) - p - 2 THEN FRound(x, p)
    ELSE IF Top(x) <= Top(y) - p - 2 THEN FRound(y, p)
    ELSE
      LET lo == MinInt(x.e, y.e)
          s  == x.m * (2 ^ (x.e - lo)) + y.m * (2 ^ (y.e - lo))
      IN  RoundQ(SignInt(s), AbsInt(s), 1, lo, p)

FSub(x, y, p) == FAdd(x, FNeg(y), p)

FMul(x, y, p) ==
    RoundQ(SignInt(x.m) * SignInt(y.m), AbsInt(x.m) * AbsInt(y.m), 1, x.e + y.e, p)

\* x / y at p bits, y # 0
FDiv(x, y, p) ==
    RoundQ(SignInt(x.m) * SignInt(y.m), AbsInt(x.m), AbsInt(y.m), x.e - y.e, p)

\* sqrt(n / d) (n >= 0, d > 0) rounded to p bits, to nearest, ties to even
RoundSqrtQ(n, d, p) ==
    IF n = 0 THEN Zero
    ELSE
      LET t  == BitLen(n) - BitLen(d)
          \* z = (n/d) / 4^k0 = N/D lies in [4^(p-1), 2 * 4^p)
          k0 == ((t + 1) \div 2) - p
          N  == IF k0 >= 0 THEN n ELSE n * (4 ^ (-k0))
          D  == IF k0 >= 0 THEN d * (4 ^ k0) ELSE d
          s  == ISqrt(N \div D)
          \* floor(sqrt(z)) holds p or p+1 bits: keep p of them
          wide == s >= 2 ^ p
          q  == IF wide THEN s \div 2 ELSE s
          k  == IF wide THEN k0 + 1 ELSE k0
          DD == IF wide THEN 4 * D ELSE D
          \* (q + 1/2)^2 against N/DD
          mid == (2 * q + 1) * (2 * q + 1)
          up == (mid * DD < 4 * N) \/ (mid * DD = 4 * N /\ q % 2 = 1)
          qq == IF up THEN q + 1 ELSE q
      IN  Norm(qq, k)

\* mpfr::sqrt(x) at p bits, x >= 0
FSqrt(x, p) ==
    IF x.e >= 0 THEN RoundSqrtQ(x.m * (2 ^ x.e), 1, p)
    ELSE RoundSqrtQ(x.m, 2 ^ (-x.e), p)

\* floor(x) as an integer (std::floor of the double, which holds x exactly
\* while the precision is at most 53 bits)
Floor(x) == IF x.e >= 0 THEN x.m * (2 ^ x.e) ELSE x.m \div (2 ^ (-x.e))

\* ln(m) * 2^16 to the nearest integer, for the odd mantissas the inputs have
LnOdd(m) ==
    CASE m = 1 -> 0
      [] m = 3 -> 71999
      [] m = 5 -> 105476
      [] m = 7 -> 127527
      [] m = 9 -> 143997
      [] m = 11 -> 157148
      [] m = 13 -> 168097
      [] m = 15 -> 177475
      [] m = 17 -> 185677

\* log(x) at p bits, x > 0: ln(m * 2^e) = ln(m) + e * ln(2), in units of 2^-16
FLog(x, p) ==
    LET f == LnOdd(x.m) + x.e * 45426
    IN  RoundQ(SignInt(f), AbsInt(f), 2 ^ 16, 0, p)

(***************************************************************************)
(* Decimal strings: the text of --number and --init-value.  A well-formed  *)
(* string is its sign, its digits read as an integer and the number of     *)
(* digits after the point: "0.125" is Dec(FALSE, 125, 3).                  *)
(***************************************************************************)
Dec(neg, num, scale) == [kind |-> "dec", neg |-> neg, num |-> num, scale |-> scale]

\* the empty string
EmptyStr == [kind |-> "empty", neg |-> FALSE, num |-> 0, scale |-> 0]

\* a string with no numeric prefix, such as "abc"
BadStr == [kind |-> "bad", neg |-> FALSE, num |-> 0, scale |-> 0]

RECURSIVE Gcd(_, _)
Gcd(x, y) == IF y = 0 THEN x ELSE Gcd(y, x % y)

\* mpreal(string) at p bits for a well-formed string; a string with no numeric
\* prefix leaves the value 0 when the constructor does not throw
ParseStr(str, p) ==
    IF str.kind = "dec"
    THEN RoundQ(IF str.neg THEN -1 ELSE 1, str.num, 10 ^ str.scale, 0, p)
    ELSE Zero

\* the exact value of a string as a fraction in lowest terms
ExactStr(str) ==
    IF str.kind = "dec" /\ str.num > 0
    THEN LET g == Gcd(str.num, 10 ^ str.scale)
         IN  [n |-> str.num \div g, d |-> (10 ^ str.scale) \div g]
    ELSE [n |-> 0, d |-> 1]

(***************************************************************************)
(* The functions of the program.                                           *)
(***************************************************************************)
\* digits_to_bits: ceil(dec_digits * log2(10))
digits_to_bits(dec_digits) ==
    (dec_digits * LOG2_10_Num + LOG2_10_Den - 1) \div LOG2_10_Den

\* the precision of a value built while the register holds reg (MPFR's
\* smallest precision when the register was set below it)
WorkPrec(reg) == IF reg < 1 THEN 1 ELSE reg

\* auto_initial_guess, lines 92-93: floor(log(a) / log(2)), a > 0
exp_floor(a, p) ==
    LET log2a == FDiv(FLog(a, p), FLog(Norm(2, 0), p), p)
    IN  Floor(log2a)

\* auto_initial_guess, line 95: (exp_floor + 2) / 2 in long long arithmetic
seed_exp(e) == TruncDiv(e + 2, 2)

\* auto_initial_guess, a >= 0
auto_initial_guess(a, p) ==
    IF IsZero(a) THEN Zero
    ELSE Norm(1, seed_exp(exp_floor(a, p)))

\* newton_heron's loop body without the factor 0.5
HeronNext_NoHalf(a, x, p) ==
    IF IsZero(x) THEN Zero
    ELSE FAdd(x, FDiv(a, x, p), p)

\* newton_heron's loop body restarting from 1 when x is 0
HeronNext_ZeroRestart(a, x, p) ==
    IF IsZero(x) THEN One
    ELSE FMul(FAdd(x, FDiv(a, x, p), p), Half, p)

\* newton_heron's step averaging x with a * x instead of a / x
HeronNext_Times(a, x, p) ==
    IF IsZero(x) THEN Zero
    ELSE FMul(FAdd(x, FMul(a, x, p), p), Half, p)

\* one pass of newton_heron's loop body from x
HeronNext(a, x, p) ==
    IF IsZero(x) THEN Zero
    ELSE FMul(FAdd(x, FDiv(a, x, p), p), Half, p)

\* one pass of reciprocal_sqrt's loop body from y
RecipNext(a, y, p) ==
    LET y2 == FMul(y, y, p)
        c  == RoundQ(1, 3, 2, 0, p)
    IN  FMul(y, FSub(c, FMul(FMul(Half, a, p), y2, p), p), p)

\* abs(val - reference)
AbsErr(val, ref, p) == FAbs(FSub(val, ref, p))

\* reference == 0 ? 0 : abs_err / abs(reference)
RelErr(abs_err, ref, p) ==
    IF IsZero(ref) THEN Zero ELSE FDiv(abs_err, FAbs(ref), p)

(***************************************************************************)
(* The inputs of a run.                                                    *)
(***************************************************************************)
\* --number: "0", "2", "4", "17", "0.125", "0.25", "-1", "abc"
Numbers ==
    { Dec(FALSE, 0, 0), Dec(FALSE, 2, 0), Dec(FALSE, 4, 0), Dec(FALSE, 17, 0),
      Dec(FALSE, 125, 3), Dec(FALSE, 25, 2), Dec(TRUE, 1, 0), BadStr }

\* --init-value: "", "0", "2", "0.5", "3", "abc"
InitValues ==
    { EmptyStr, Dec(FALSE, 0, 0), Dec(FALSE, 2, 0), Dec(FALSE, 5, 1),
      Dec(FALSE, 3, 0), BadStr }

\* --init-mode; every mode but "manual" takes the automatic seed
InitModes == {"auto", "manual", "reciprocal-seed"}

\* --method; "reciprocal" is the name the documentation uses, not a tag of main
Methods == {"heron", "recip", "reciprocal"}

\* --prec-digits
PrecDigits == {0, 1, 2}

\* what time_in_ns measures for the scheme, in ns
ElapsedNs == {1, 2}

\* --iterations (std::stoi takes a negative count too)
IterationCounts == (-1) .. MaxIter

Options ==
    [ number : Numbers, prec_digits : PrecDigits, iterations : IterationCounts,
      init_mode : InitModes, init_value : InitValues, method : Methods,
      save_csv : BOOLEAN ]

(***************************************************************************)
(* The state of a run.                                                     *)
(***************************************************************************)
VARIABLES
    opt,          \* the parsed command line
    throws,       \* whether this build's mpreal(string) throws on malformed text
    pc,           \* main's position
    err,          \* the failure the run ended in, "none" while it has none
    prec,         \* the precision register (mpreal's default precision)
    bits,         \* main's bits
    orig_prec,    \* main's orig_prec
    a,            \* main's a
    ref_str,      \* main's ref_str: the text of sqrt(n/d), n/d the input's value
    reference,    \* main's reference
    degraded,     \* whether reference came from the fallback of line 208
    x0,           \* main's x0
    y0,           \* main's y0
    x,            \* the loop variable x of newton_heron, y of reciprocal_sqrt
    its,          \* the vector its of the running scheme
    i,            \* the loop counter of the running scheme
    steps,        \* loop bodies executed so far
    divs,         \* divisions executed in loop bodies so far
    approx,       \* main's approx
    summary,      \* the summary printed (lines 292-306), <<>> before
    table,        \* the per-iteration rows printed (lines 309-315)
    csv,          \* the rows written to the CSV file
    elapsed_ns,   \* main's elapsed_ns, 0 before the scheme returns
    first,        \* what an earlier run on the same command line produced
    reg,          \* a precision register that several computations share
    lock,         \* the computation the host has admitted, 0 when none
    comp,         \* the position of each computation of the host
    loading,      \* the web form's state loading
    result,       \* the web form's state result
    error,        \* the web form's state error
    csvUrl,       \* the web form's state csvUrl
    reqs,         \* the position of each call of handleSubmit
    copying       \* calls of copyResult waiting for the clipboard

vars ==
    << opt, throws, pc, err, prec, bits, orig_prec, a, ref_str, reference,
       degraded, x0, y0, x, its, i, steps, divs, approx, summary, table, csv,
       elapsed_ns, first, reg, lock, comp, loading, result, error, csvUrl,
       reqs, copying >>

\* the state of the web form
form == << loading, result, error, csvUrl, reqs, copying >>

\* the state of a host serving several computations
host == << reg, lock, comp >>

\* what no step of main changes: the command line, the build, and the state
\* outside the run
fixed == << opt, throws, first, host, form >>

\* the numeric state of main and of the schemes
nums == << a, ref_str, reference, degraded, x0, y0, x, its, i, steps, divs, approx >>

\* what the run has printed or written
outs == << summary, table, csv >>

\* no earlier run
NoRun == << >>

\* the computations a host serves
Computations == {1, 2}

\* a host that has admitted nothing yet; the register holds the library's
\* default precision
HostIdle ==
    /\ reg = 53
    /\ lock = 0
    /\ comp = [c \in Computations |->
                 [pc |-> "idle", digits |-> 0, left |-> 0, orig |-> 0]]

\* the value null of the form's states
Null == [kind |-> "null", from |-> 0, copied |-> 0]

\* the calls of handleSubmit, in the order of the clicks
Requests == 1 .. MaxClicks

\* App, lines 42-45: the states of the form when it is mounted
FormIdle ==
    /\ loading = FALSE
    /\ result = Null
    /\ error = Null
    /\ csvUrl = Null
    /\ reqs = [r \in Requests |-> "unsent"]
    /\ copying = 0

Init ==
    /\ opt \in Options
    /\ opt.init_mode # "manual" => opt.init_value = EmptyStr
    /\ throws \in BOOLEAN
    /\ (opt.number.kind # "bad" /\ opt.init_value.kind # "bad") => throws = FALSE
    /\ pc = "set_prec"
    /\ err = "none"
    /\ prec = 53
    /\ bits = 0
    /\ orig_prec = 0
    /\ a = Zero
    /\ ref_str = [n |-> 0, d |-> 1]
    /\ reference = Zero
    /\ degraded = FALSE
    /\ x0 = Zero
    /\ y0 = Zero
    /\ x = Zero
    /\ its = << >>
    /\ i = 0
    /\ steps = 0
    /\ divs = 0
    /\ approx = Zero
    /\ summary = << >>
    /\ table = << >>
    /\ csv = << >>
    /\ elapsed_ns = 0
    /\ first = NoRun
    /\ HostIdle
    /\ FormIdle

\* return 1 after a message on std::cerr
Fail(e) == pc' = "failed" /\ err' = e

\* an exception no handler catches, or an abort inside the library
Crash(e) == pc' = "crashed" /\ err' = e

(***************************************************************************)
(* main, lines 169-171: compute and set the precision.  A precision of 0   *)
(* is outside what the library documents: it aborts on its assertion, or   *)
(* goes on at its smallest precision.                                      *)
(***************************************************************************)
SetPrecision ==
    /\ pc = "set_prec"
    /\ bits' = digits_to_bits(opt.prec_digits)
    /\ prec' = bits'
    /\ IF bits' = 0
       THEN \E goes_on \in BOOLEAN :
              IF goes_on THEN pc' = "parse" /\ err' = err
              ELSE Crash("LibraryAbort")
       ELSE pc' = "parse" /\ err' = err
    /\ UNCHANGED << fixed, elapsed_ns, orig_prec, nums, outs >>

\* ParseNumber without the test a < 0 of line 182
ParseNumber_NoNegativeCheck ==
    /\ pc = "parse"
    /\ IF opt.number.kind = "bad" /\ throws
       THEN Fail("ParseError") /\ a' = a
       ELSE /\ a' = ParseStr(opt.number, WorkPrec(prec))
            /\ pc' = "elevate"
            /\ err' = err
    /\ UNCHANGED << fixed, elapsed_ns, prec, bits, orig_prec, ref_str, reference,
                    degraded, x0, y0, x, its, i, steps, divs, approx, outs >>

(***************************************************************************)
(* main, lines 173-185: parse the input number, reject a negative one.     *)
(***************************************************************************)
ParseNumber ==
    /\ pc = "parse"
    /\ IF opt.number.kind = "bad" /\ throws
       THEN Fail("ParseError") /\ a' = a
       ELSE /\ a' = ParseStr(opt.number, WorkPrec(prec))
            /\ IF IsNeg(a')
               THEN Fail("NegativeInput")
               ELSE pc' = "elevate" /\ err' = err
    /\ UNCHANGED << fixed, elapsed_ns, prec, bits, orig_prec, ref_str, reference,
                    degraded, x0, y0, x, its, i, steps, divs, approx, outs >>

(***************************************************************************)
(* main, lines 187-191: raise the register by extra_bits.                  *)
(***************************************************************************)
Elevate ==
    /\ pc = "elevate"
    /\ orig_prec' = prec
    /\ prec' = prec + extra_bits
    /\ pc' = "ref_high"
    /\ UNCHANGED << fixed, elapsed_ns, err, bits, nums, outs >>

(***************************************************************************)
(* main, lines 192-198: the computation at elevated precision (parse the   *)
(* input again, mpfr::sqrt, print into ref_str).  Nothing guards it: when  *)
(* one of its calls throws (std::bad_alloc from the string stream, say),   *)
(* the exception leaves main.  The elevated value carries 64 bits more     *)
(* than any working value, so ref_str is kept as the root it denotes.      *)
(***************************************************************************)
ReferenceHigh ==
    /\ pc = "ref_high"
    /\ \E fails \in BOOLEAN :
         IF fails
         THEN Crash("Uncaught") /\ ref_str' = ref_str
         ELSE /\ ref_str' = ExactStr(opt.number)
              /\ pc' = "restore"
              /\ err' = err
    /\ UNCHANGED << fixed, elapsed_ns, prec, bits, orig_prec, a, reference, degraded,
                    x0, y0, x, its, i, steps, divs, approx, outs >>

\* line 200 left out: the register stays at ref_prec
Restore_Skipped ==
    /\ pc = "restore"
    /\ prec' = prec
    /\ pc' = "ref_parse"
    /\ UNCHANGED << fixed, elapsed_ns, err, bits, orig_prec, nums, outs >>

(***************************************************************************)
(* main, line 200: restore the register.                                   *)
(***************************************************************************)
Restore ==
    /\ pc = "restore"
    /\ prec' = orig_prec
    /\ pc' = "ref_parse"
    /\ UNCHANGED << fixed, elapsed_ns, err, bits, orig_prec, nums, outs >>

(***************************************************************************)
(* main, lines 201-209: parse ref_str at the working precision; when the   *)
(* constructor throws, fall back on mpfr::sqrt(a).                         *)
(***************************************************************************)
ReferenceParse ==
    /\ pc = "ref_parse"
    /\ \E caught \in BOOLEAN :
         /\ degraded' = caught
         /\ reference' = IF caught THEN FSqrt(a, WorkPrec(prec))
                         ELSE RoundSqrtQ(ref_str.n, ref_str.d, WorkPrec(prec))
    /\ pc' = "guess"
    /\ UNCHANGED << fixed, elapsed_ns, err, prec, bits, orig_prec, a, ref_str,
                    x0, y0, x, its, i, steps, divs, approx, outs >>

(***************************************************************************)
(* main, lines 211-223: the initial guess x0.  The constructor of line 218 *)
(* stands outside every try block.                                         *)
(***************************************************************************)
PrepareGuess ==
    /\ pc = "guess"
    /\ IF opt.init_mode = "manual"
       THEN IF opt.init_value.kind = "empty"
            THEN Fail("MissingInitValue") /\ x0' = x0
            ELSE IF opt.init_value.kind = "bad" /\ throws
            THEN Crash("Uncaught") /\ x0' = x0
            ELSE /\ x0' = ParseStr(opt.init_value, WorkPrec(prec))
                 /\ pc' = "seed"
                 /\ err' = err
       ELSE /\ x0' = auto_initial_guess(a, WorkPrec(prec))
            /\ pc' = "seed"
            /\ err' = err
    /\ UNCHANGED << fixed, elapsed_ns, prec, bits, orig_prec, a, ref_str, reference,
                    degraded, y0, x, its, i, steps, divs, approx, outs >>

\* ConvertSeed taking the fallback y0 = 1 for a zero manual guess too
ConvertSeed_ZeroFallback ==
    /\ pc = "seed"
    /\ IF opt.method = "recip"
       THEN LET g == IF opt.init_mode = "manual" /\ opt.init_value.kind # "empty"
                     THEN ParseStr(opt.init_value, WorkPrec(prec))
                     ELSE x0
            IN  y0' = IF IsZero(g) THEN One ELSE FDiv(One, g, WorkPrec(prec))
       ELSE y0' = y0
    /\ pc' = "run"
    /\ err' = err
    /\ UNCHANGED << fixed, elapsed_ns, prec, bits, orig_prec, a, ref_str, reference,
                    degraded, x0, x, its, i, steps, divs, approx, outs >>

\* ConvertSeed handing the automatic guess over as it is, not its reciprocal
ConvertSeed_NotInverted ==
    /\ pc = "seed"
    /\ IF opt.method = "recip"
       THEN IF opt.init_mode = "manual" /\ opt.init_value.kind # "empty"
            THEN LET sqrt_guess == ParseStr(opt.init_value, WorkPrec(prec))
                 IN  IF IsZero(sqrt_guess)
                     THEN Fail("DivisionByZero") /\ y0' = y0
                     ELSE /\ y0' = FDiv(One, sqrt_guess, WorkPrec(prec))
                          /\ pc' = "run"
                          /\ err' = err
            ELSE /\ y0' = x0
                 /\ pc' = "run"
                 /\ err' = err
       ELSE /\ y0' = y0
            /\ pc' = "run"
            /\ err' = err
    /\ UNCHANGED << fixed, elapsed_ns, prec, bits, orig_prec, a, ref_str, reference,
                    degraded, x0, x, its, i, steps, divs, approx, outs >>

(***************************************************************************)
(* main, lines 225-246: the reciprocal seed y0, under method recip only.   *)
(***************************************************************************)
ConvertSeed ==
    /\ pc = "seed"
    /\ IF opt.method = "recip"
       THEN IF opt.init_mode = "manual" /\ opt.init_value.kind # "empty"
            THEN LET sqrt_guess == ParseStr(opt.init_value, WorkPrec(prec))
                 IN  IF IsZero(sqrt_guess)
                     THEN Fail("DivisionByZero") /\ y0' = y0
                     ELSE /\ y0' = FDiv(One, sqrt_guess, WorkPrec(prec))
                          /\ pc' = "run"
                          /\ err' = err
            ELSE /\ y0' = IF IsZero(x0) THEN One
                          ELSE FDiv(One, x0, WorkPrec(prec))
                 /\ pc' = "run"
                 /\ err' = err
       ELSE /\ y0' = y0
            /\ pc' = "run"
            /\ err' = err
    /\ UNCHANGED << fixed, elapsed_ns, prec, bits, orig_prec, a, ref_str, reference,
                    degraded, x0, x, its, i, steps, divs, approx, outs >>

\* RunMethod taking heron for every tag that is not recip
RunMethod_DefaultHeron ==
    /\ pc = "run"
    /\ IF opt.method = "recip"
       THEN /\ x' = y0
            /\ its' = << y0 >>
            /\ pc' = "recip"
       ELSE /\ x' = x0
            /\ its' = << x0 >>
            /\ pc' = "heron"
    /\ err' = err
    /\ i' = 0
    /\ UNCHANGED << fixed, elapsed_ns, prec, bits, orig_prec, a, ref_str, reference,
                    degraded, x0, y0, steps, divs, approx, outs >>

(***************************************************************************)
(* main, lines 248-271, and the entry of the chosen scheme (lines 52-55,   *)
(* 71-74): its holds the seed before the loop starts.                      *)
(***************************************************************************)
RunMethod ==
    /\ pc = "run"
    /\ IF opt.method = "heron"
       THEN /\ x' = x0
            /\ its' = << x0 >>
            /\ pc' = "heron"
            /\ err' = err
       ELSE IF opt.method = "recip"
       THEN /\ x' = y0
            /\ its' = << y0 >>
            /\ pc' = "recip"
            /\ err' = err
       ELSE /\ Fail("UnknownMethod")
            /\ UNCHANGED << x, its >>
    /\ i' = 0
    /\ UNCHANGED << fixed, elapsed_ns, prec, bits, orig_prec, a, ref_str, reference,
                    degraded, x0, y0, steps, divs, approx, outs >>

\* HeronStep whose branch for x = 0 continues without its.push_back
HeronStep_NoPushOnZero ==
    /\ pc = "heron"
    /\ i < opt.iterations
    /\ x' = HeronNext(a, x, WorkPrec(prec))
    /\ its' = IF IsZero(x) THEN its ELSE Append(its, x')
    /\ divs' = IF IsZero(x) THEN divs ELSE divs + 1
    /\ steps' = steps + 1
    /\ i' = i + 1
    /\ UNCHANGED << fixed, elapsed_ns, pc, err, prec, bits, orig_prec, a, ref_str,
                    reference, degraded, x0, y0, approx, outs >>

(***************************************************************************)
(* newton_heron, lines 56-65: one pass of the loop.                        *)
(***************************************************************************)
HeronStep ==
    /\ pc = "heron"
    /\ i < opt.iterations
    /\ x' = HeronNext(a, x, WorkPrec(prec))
    /\ its' = Append(its, x')
    /\ divs' = IF IsZero(x) THEN divs ELSE divs + 1
    /\ steps' = steps + 1
    /\ i' = i + 1
    /\ UNCHANGED << fixed, elapsed_ns, pc, err, prec, bits, orig_prec, a, ref_str,
                    reference, degraded, x0, y0, approx, outs >>

\* newton_heron giving up its loop when a time budget runs out
HeronReturn_OnTimeout ==
    /\ pc = "heron"
    /\ approx' = x
    /\ elapsed_ns' \in ElapsedNs
    /\ pc' = "summary"
    /\ UNCHANGED << fixed, err, prec, bits, orig_prec, a, ref_str,
                    reference, degraded, x0, y0, x, its, i, steps, divs, outs >>

(***************************************************************************)
(* newton_heron, line 66, and main, lines 257-258, 273-274.                *)
(***************************************************************************)
HeronReturn ==
    /\ pc = "heron"
    /\ ~(i < opt.iterations)
    /\ approx' = x
    /\ elapsed_ns' \in ElapsedNs
    /\ pc' = "summary"
    /\ UNCHANGED << fixed, err, prec, bits, orig_prec, a, ref_str,
                    reference, degraded, x0, y0, x, its, i, steps, divs, outs >>

(***************************************************************************)
(* reciprocal_sqrt, lines 75-80: one pass of the loop.                     *)
(***************************************************************************)
RecipStep ==
    /\ pc = "recip"
    /\ i < opt.iterations
    /\ x' = RecipNext(a, x, WorkPrec(prec))
    /\ its' = Append(its, x')
    /\ steps' = steps + 1
    /\ i' = i + 1
    /\ UNCHANGED << fixed, elapsed_ns, pc, err, prec, bits, orig_prec, a, ref_str,
                    reference, degraded, x0, y0, divs, approx, outs >>

(***************************************************************************)
(* reciprocal_sqrt, lines 81-82, and main, lines 265-266, 273-274.         *)
(***************************************************************************)
RecipReturn ==
    /\ pc = "recip"
    /\ ~(i < opt.iterations)
    /\ approx' = FMul(a, x, WorkPrec(prec))
    /\ elapsed_ns' \in ElapsedNs
    /\ pc' = "summary"
    /\ UNCHANGED << fixed, err, prec, bits, orig_prec, a, ref_str,
                    reference, degraded, x0, y0, x, its, i, steps, divs, outs >>

(***************************************************************************)
(* The error columns, as each of the three places of the program computes  *)
(* them.                                                                   *)
(***************************************************************************)
\* main, lines 303-304: the final summary
SummaryErrors(val, ref, p) ==
    LET abs_err_final == AbsErr(val, ref, p)
    IN  [abs_err |-> abs_err_final, rel_err |-> RelErr(abs_err_final, ref, p)]

\* main, lines 311-313: a row of the on-screen table
TableRow(k, val, ref, p) ==
    LET aerr == AbsErr(val, ref, p)
    IN  [i |-> k, val |-> val, abs_err |-> aerr,
         rel_err |-> IF IsZero(ref) THEN Zero ELSE FDiv(aerr, FAbs(ref), p)]

\* a CSV row whose error is val - reference, without abs
CsvRow_SignedError(k, val, ref, p) ==
    LET abs_err == FSub(val, ref, p)
    IN  [i |-> k, val |-> val, abs_err |-> abs_err,
         rel_err |-> IF IsZero(ref) THEN Zero ELSE FDiv(abs_err, FAbs(ref), p)]

\* save_iterations_csv, lines 110-113: a row of the CSV file
CsvRow(k, val, ref, p) ==
    LET abs_err == AbsErr(val, ref, p)
    IN  [i |-> k, val |-> val, abs_err |-> abs_err,
         rel_err |-> IF IsZero(ref) THEN Zero ELSE FDiv(abs_err, FAbs(ref), p)]

(***************************************************************************)
(* main, lines 276-306: the summary.  Line 299 prints the reference under  *)
(* the fixed label "Reference (high-precision) sqrt", whichever branch of  *)
(* lines 203-209 produced it.                                              *)
(***************************************************************************)
PrintSummary ==
    /\ pc = "summary"
    /\ summary' =
         [ initial_guess |-> IF opt.method = "heron" THEN x0 ELSE y0,
           elapsed_ns    |-> elapsed_ns,
           reference_label |-> "high-precision",
           reference     |-> reference,
           builtin       |-> FSqrt(a, WorkPrec(prec)),
           approx        |-> approx,
           errors        |-> SummaryErrors(approx, reference, WorkPrec(prec)) ]
    /\ pc' = "table"
    /\ UNCHANGED << fixed, elapsed_ns, err, prec, bits, orig_prec, nums, table, csv >>

(***************************************************************************)
(* main, lines 308-315: the per-iteration table.                           *)
(***************************************************************************)
PrintTable ==
    /\ pc = "table"
    /\ table' = [ k \in 1 .. Len(its) |->
                    TableRow(k - 1, its[k], reference, WorkPrec(prec)) ]
    /\ pc' = "csv"
    /\ UNCHANGED << fixed, elapsed_ns, err, prec, bits, orig_prec, nums, summary, csv >>

(***************************************************************************)
(* main, lines 317-320, and save_iterations_csv: the CSV file, when asked  *)
(* for and when the file opens.                                            *)
(***************************************************************************)
SaveCsv ==
    /\ pc = "csv"
    /\ IF opt.save_csv
       THEN \E opened \in BOOLEAN :
              csv' = IF opened
                     THEN [ k \in 1 .. Len(its) |->
                              CsvRow(k - 1, its[k], reference, WorkPrec(prec)) ]
                     ELSE csv
       ELSE csv' = csv
    /\ pc' = "done"
    /\ UNCHANGED << fixed, elapsed_ns, err, prec, bits, orig_prec, nums, summary, table >>

Next ==
    \/ SetPrecision
    \/ ParseNumber
    \/ Elevate
    \/ ReferenceHigh
    \/ Restore
    \/ ReferenceParse
    \/ PrepareGuess
    \/ ConvertSeed
    \/ RunMethod
    \/ HeronStep
    \/ HeronReturn
    \/ RecipStep
    \/ RecipReturn
    \/ PrintSummary
    \/ PrintTable
    \/ SaveCsv

Spec == Init /\ [][Next]_vars

(***************************************************************************)
(* The program started a second time on the same command line, in the same *)
(* build: main begins again from the state of line 165, and what the run   *)
(* before it produced is kept aside for comparison.                        *)
(***************************************************************************)
Rerun ==
    /\ pc = "done"
    /\ first = NoRun
    /\ first' = [ its |-> its, approx |-> approx, reference |-> reference,
                  degraded |-> degraded, errors |-> summary.errors,
                  table |-> table, elapsed_ns |-> elapsed_ns ]
    /\ pc' = "set_prec"
    /\ err' = "none"
    /\ prec' = 53
    /\ bits' = 0
    /\ orig_prec' = 0
    /\ a' = Zero
    /\ ref_str' = [n |-> 0, d |-> 1]
    /\ reference' = Zero
    /\ degraded' = FALSE
    /\ x0' = Zero
    /\ y0' = Zero
    /\ x' = Zero
    /\ its' = << >>
    /\ i' = 0
    /\ steps' = 0
    /\ divs' = 0
    /\ approx' = Zero
    /\ summary' = << >>
    /\ table' = << >>
    /\ csv' = << >>
    /\ elapsed_ns' = 0
    /\ UNCHANGED << opt, throws, host, form >>

\* runs on a valid precision
InitTwice == Init /\ opt.prec_digits > 0

NextTwice == Next \/ Rerun

SpecTwice == InitTwice /\ [][NextTwice]_vars

(***************************************************************************)
(* A host that serves several computations in one process.  Each           *)
(* computation goes through the register protocol of main (set at line     *)
(* 171, raised at line 191, restored at line 200) and through main's       *)
(* working steps, which read the register: the constructors of lines 175   *)
(* and 204, the seed, the loop bodies, the error columns.  main itself     *)
(* takes no lock; the host admits one computation at a time and keeps it   *)
(* admitted until its last working step.                                   *)
(***************************************************************************)
\* the state of main that the host's computations leave alone
run ==
    << opt, throws, pc, err, prec, bits, orig_prec, nums, outs, elapsed_ns,
       first, form >>

\* computation c moves to position q
Goto(c, q) == comp' = [comp EXCEPT ![c].pc = q]

\* a request for computation c arrives
Submit(c) ==
    /\ comp[c].pc = "idle"
    /\ \E d \in PrecDigits \ {0}, n \in 0 .. MaxIter :
         comp' = [comp EXCEPT ![c] =
                    [pc |-> "waiting", digits |-> d, left |-> n, orig |-> 0]]
    /\ UNCHANGED << reg, lock, run >>

\* the host admitting a waiting computation whatever the lock says
Admit_Unserialized(c) ==
    /\ comp[c].pc = "waiting"
    /\ lock' = c
    /\ Goto(c, "set_prec")
    /\ UNCHANGED << reg, run >>

\* the host admits a waiting computation when no computation is admitted
Admit(c) ==
    /\ comp[c].pc = "waiting"
    /\ lock = 0
    /\ lock' = c
    /\ Goto(c, "set_prec")
    /\ UNCHANGED << reg, run >>

\* main, lines 169-171
ConfigureRegister(c) ==
    /\ comp[c].pc = "set_prec"
    /\ reg' = digits_to_bits(comp[c].digits)
    /\ Goto(c, "parse")
    /\ UNCHANGED << lock, run >>

\* main, lines 173-185: the number, constructed at the register's precision
ParseAtRegister(c) ==
    /\ comp[c].pc = "parse"
    /\ Goto(c, "elevate")
    /\ UNCHANGED << reg, lock, run >>

\* main, lines 188-191
ElevateRegister(c) ==
    /\ comp[c].pc = "elevate"
    /\ reg' = reg + extra_bits
    /\ comp' = [comp EXCEPT ![c].pc = "ref_high", ![c].orig = reg]
    /\ UNCHANGED << lock, run >>

\* main, lines 192-198
ComputeElevated(c) ==
    /\ comp[c].pc = "ref_high"
    /\ Goto(c, "restore")
    /\ UNCHANGED << reg, lock, run >>

\* main, line 200
RestoreRegister(c) ==
    /\ comp[c].pc = "restore"
    /\ reg' = comp[c].orig
    /\ Goto(c, "ref_parse")
    /\ UNCHANGED << lock, run >>

\* main, lines 201-209: the reference, constructed at the register's precision
ReparseAtRegister(c) ==
    /\ comp[c].pc = "ref_parse"
    /\ Goto(c, "seed")
    /\ UNCHANGED << reg, lock, run >>

\* main, lines 211-246: the seed
SeedAtRegister(c) ==
    /\ comp[c].pc = "seed"
    /\ Goto(c, "iterate")
    /\ UNCHANGED << reg, lock, run >>

\* newton_heron, lines 56-65, reciprocal_sqrt, lines 75-80: a loop body, or
\* the end of the loop
IterateAtRegister(c) ==
    /\ comp[c].pc = "iterate"
    /\ IF comp[c].left > 0
       THEN comp' = [comp EXCEPT ![c].left = @ - 1]
       ELSE Goto(c, "errors")
    /\ UNCHANGED << reg, lock, run >>

\* main, lines 303-315: the error columns
ErrorsAtRegister(c) ==
    /\ comp[c].pc = "errors"
    /\ Goto(c, "finished")
    /\ UNCHANGED << reg, lock, run >>

\* the host lets the finished computation go
Release(c) ==
    /\ comp[c].pc = "finished"
    /\ lock = c
    /\ lock' = 0
    /\ comp' = [comp EXCEPT ![c] =
                  [pc |-> "idle", digits |-> 0, left |-> 0, orig |-> 0]]
    /\ UNCHANGED << reg, run >>

InitHost ==
    /\ Init
    /\ opt = [ number |-> Dec(FALSE, 2, 0), prec_digits |-> 1, iterations |-> 0,
               init_mode |-> "auto", init_value |-> EmptyStr,
               method |-> "heron", save_csv |-> FALSE ]

NextHost ==
    \E c \in Computations :
        \/ Submit(c)
        \/ Admit(c)
        \/ ConfigureRegister(c)
        \/ ParseAtRegister(c)
        \/ ElevateRegister(c)
        \/ ComputeElevated(c)
        \/ RestoreRegister(c)
        \/ ReparseAtRegister(c)
        \/ SeedAtRegister(c)
        \/ IterateAtRegister(c)
        \/ ErrorsAtRegister(c)
        \/ Release(c)

SpecHost == InitHost /\ [][NextHost]_vars

(***************************************************************************)
(* The web form (App).  A handler runs to its next await without           *)
(* interruption; what it awaits (fetch, the body of the response, the      *)
(* clipboard) completes at any later time, in any order.  The Compute      *)
(* button of lines 209-215 carries no disabled attribute: it starts a new  *)
(* call of handleSubmit whatever the earlier calls are doing.              *)
(***************************************************************************)
\* everything but the form
rest == << opt, throws, pc, err, prec, bits, orig_prec, nums, outs,
           elapsed_ns, first, host >>

\* the calls of handleSubmit that wait for fetch or for the response's body
Pending == { r \in Requests : reqs[r] \in {"fetch", "text", "blob", "json"} }

\* the object request r passes to setResult
ResultOf(r, k) == [kind |-> k, from |-> r, copied |-> 0]

\* the message request r passes to setError: the exception's message, or
\* the text of the response or its HTTP status
ErrorOf(r, k) == [kind |-> k, from |-> r, copied |-> 0]

\* clearAll, lines 47-51 (sampleQuick and every onChange of the inputs)
clearAll ==
    /\ result' = Null
    /\ error' = Null
    /\ csvUrl' = Null
    /\ UNCHANGED << loading, reqs, copying, rest >>

\* handleSubmit, lines 58-80: from the click to the await of fetch
handleSubmit ==
    /\ \E r \in Requests :
         /\ reqs[r] = "unsent"
         /\ \A q \in Requests : q < r => reqs[q] # "unsent"
         /\ reqs' = [reqs EXCEPT ![r] = "fetch"]
    /\ loading' = TRUE
    /\ error' = Null
    /\ result' = Null
    /\ csvUrl' = Null
    /\ UNCHANGED << copying, rest >>

\* handleSubmit, lines 97-103: catch, then finally
Caught(r, k) ==
    /\ error' = ErrorOf(r, k)
    /\ loading' = FALSE
    /\ reqs' = [reqs EXCEPT ![r] = "done"]
    /\ UNCHANGED << result, csvUrl >>

\* handleSubmit, lines 77-81, 97-103: fetch rejects
FetchRejected(r) ==
    /\ reqs[r] = "fetch"
    /\ Caught(r, "exception")
    /\ UNCHANGED << copying, rest >>

\* handleSubmit, lines 77-95: fetch resolves; the status and the content
\* type of the response decide which body is awaited
FetchResolved(r) ==
    /\ reqs[r] = "fetch"
    /\ \E body \in {"text", "blob", "json"} :
         reqs' = [reqs EXCEPT ![r] = body]
    /\ UNCHANGED << loading, result, error, csvUrl, copying, rest >>

\* handleSubmit, lines 83-86, 97-103: the text of a response that is not ok
\* is thrown (and a rejected resp.text() is caught the same way)
TextRead(r) ==
    /\ reqs[r] = "text"
    /\ \E rejected \in BOOLEAN :
         Caught(r, IF rejected THEN "exception" ELSE "http")
    /\ UNCHANGED << copying, rest >>

\* handleSubmit, lines 88-94 and 97-103: the CSV blob
BlobRead(r) ==
    /\ reqs[r] = "blob"
    /\ \E rejected \in BOOLEAN :
         IF rejected THEN Caught(r, "exception")
         ELSE /\ csvUrl' = ResultOf(r, "url")
              /\ result' = ResultOf(r, "csv")
              /\ loading' = FALSE
              /\ reqs' = [reqs EXCEPT ![r] = "done"]
              /\ error' = error
    /\ UNCHANGED << copying, rest >>

\* handleSubmit, lines 95-96 and 97-103: the JSON body
JsonRead(r) ==
    /\ reqs[r] = "json"
    /\ \E rejected \in BOOLEAN :
         IF rejected THEN Caught(r, "exception")
         ELSE /\ result' = ResultOf(r, "json")
              /\ loading' = FALSE
              /\ reqs' = [reqs EXCEPT ![r] = "done"]
              /\ UNCHANGED << error, csvUrl >>
    /\ UNCHANGED << copying, rest >>

\* copyResult, lines 123-127: from the click to the await of the clipboard
copyResult ==
    /\ result # Null
    /\ copying + result.copied < MaxCopies
    /\ copying' = copying + 1
    /\ UNCHANGED << loading, result, error, csvUrl, reqs, rest >>

\* copyResult, lines 128-132: the clipboard answers; the updater spreads the
\* result of that moment, null included, into a new object
ClipboardDone ==
    /\ copying > 0
    /\ copying' = copying - 1
    /\ \E rejected \in BOOLEAN :
         IF rejected THEN result' = result
         ELSE result' = [kind |-> IF result = Null THEN "object" ELSE result.kind,
                         from |-> result.from,
                         copied |-> result.copied + 1]
    /\ UNCHANGED << loading, error, csvUrl, reqs, rest >>

InitForm == InitHost

NextForm ==
    \/ handleSubmit
    \/ clearAll
    \/ copyResult
    \/ ClipboardDone
    \/ \E r \in Requests :
         \/ FetchRejected(r)
         \/ FetchResolved(r)
         \/ TextRead(r)
         \/ BlobRead(r)
         \/ JsonRead(r)

SpecForm == InitForm /\ [][NextForm]_vars

TypeOK ==
    /\ pc \in { "set_prec", "parse", "elevate", "ref_high", "restore", "ref_parse",
                "guess", "seed", "run", "heron", "recip", "summary", "table",
                "csv", "done", "failed", "crashed" }
    /\ Len(its) <= MaxIter + 1

(***************************************************************************)
(* Vocabulary of the properties.                                           *)
(***************************************************************************)
\* the positions at which the chosen scheme has returned
Returned == pc \in {"summary", "table", "csv", "done"}

\* the positions at which a scheme is running or has returned
Running == pc \in {"heron", "recip"} \/ Returned

\* nothing has been printed or written
NoOutput == summary = << >> /\ table = << >> /\ csv = << >>

\* no loop body has run and no scheme has been entered
NoIteration == steps = 0 /\ divs = 0 /\ its = << >>

\* the seed the chosen scheme was given
Seed == IF opt.method = "heron" THEN x0 ELSE y0

\* the input number is a negative decimal
NegativeNumber == opt.number.kind = "dec" /\ opt.number.neg /\ opt.number.num > 0

\* the working precision of the run
RunPrec == WorkPrec(digits_to_bits(opt.prec_digits))

\* x * x, exactly
ExactSquare(v) == Norm(v.m * v.m, 2 * v.e)

(***************************************************************************)
(* C1: for both schemes, the returned sequence has iterations + 1 elements *)
(* when iterations >= 0, and its element 0 is the seed, unchanged; with    *)
(* iterations = 0 it is the one-element sequence of the seed.              *)
(***************************************************************************)
C1_LengthAndSeed ==
    /\ (Running => Len(its) >= 1 /\ its[1] = Seed)
    /\ (Returned /\ opt.iterations >= 0 => Len(its) = opt.iterations + 1)
    /\ (Returned /\ opt.iterations = 0 => its = << Seed >>)

C1_Witness ==
    /\ pc = "summary"
    /\ opt.method = "recip"
    /\ opt.iterations = 3
    /\ Len(its) = 4
    /\ its[1] = y0
    /\ its[4] # y0

(***************************************************************************)
(* C2: a run (at a precision of at least one digit) whose input number is  *)
(* negative ends in the NegativeInput failure: it never goes past the      *)
(* check, derives no seed, builds no reference, runs no iteration and      *)
(* prints nothing, whatever the method, the count and the guess mode.      *)
(***************************************************************************)
C2_NegativeInputRejected ==
    (NegativeNumber /\ opt.prec_digits > 0) =>
        /\ pc \in {"set_prec", "parse", "failed"}
        /\ (pc = "failed" => err = "NegativeInput")
        /\ (pc # "failed" => err = "none")
        /\ x0 = Zero /\ y0 = Zero /\ reference = Zero
        /\ prec \in {53, bits}
        /\ NoIteration
        /\ NoOutput

C2_Witness ==
    /\ NegativeNumber
    /\ pc = "failed"
    /\ err = "NegativeInput"
    /\ opt.method = "recip"
    /\ opt.init_mode = "manual"
    /\ IsNeg(a)

(***************************************************************************)
(* C3: once the reference-building step is left, by its normal end or by a *)
(* failure of the elevated computation, the precision register holds the   *)
(* working precision again.                                                *)
(***************************************************************************)
C3_RestoredOnEveryExit ==
    ( /\ opt.prec_digits > 0
      /\ pc \notin {"set_prec", "parse", "elevate", "ref_high", "restore"} ) =>
        prec = bits

(***************************************************************************)
(* C4: a run asked for 0 digits is rejected with InvalidPrecision before   *)
(* the register is set; the working precision is > 0 in every run that     *)
(* goes on.                                                                *)
(***************************************************************************)
C4_ZeroDigitsRejected ==
    /\ (opt.prec_digits = 0 /\ pc # "set_prec" =>
            pc = "failed" /\ err = "InvalidPrecision" /\ prec = 53)
    /\ (pc \notin {"set_prec", "failed", "crashed"} => bits > 0)

(***************************************************************************)
(* C5: for input "0" with 5 iterations and the automatic guess, under      *)
(* either method every iterate is 0 and every row has absolute and         *)
(* relative error 0.                                                       *)
(***************************************************************************)
C5_ZeroInputAllZero ==
    ( /\ opt.number = Dec(FALSE, 0, 0)
      /\ opt.prec_digits > 0
      /\ opt.iterations = 5
      /\ opt.init_mode = "auto"
      /\ opt.method \in {"heron", "recip"}
      /\ pc = "done" ) =>
        /\ \A k \in 1 .. Len(its) : its[k] = Zero
        /\ \A k \in 1 .. Len(table) :
              table[k].abs_err = Zero /\ table[k].rel_err = Zero

(***************************************************************************)
(* C6: the exact root is a fixed point of the Newton-Heron step: when      *)
(* a > 0, the seed x0 > 0 and x0 * x0 = a, every iterate of newton_heron   *)
(* equals x0, however many passes have run.                                *)
(***************************************************************************)
C6_ExactRootIsFixedPoint ==
    ( /\ opt.method = "heron"
      /\ Running
      /\ a.m > 0
      /\ x0.m > 0
      /\ ExactSquare(x0) = a ) =>
        \A k \in 1 .. Len(its) : its[k] = x0

C6_Witness ==
    /\ opt.method = "heron"
    /\ opt.init_mode = "manual"
    /\ opt.iterations = 1
    /\ pc = "summary"
    /\ a = Norm(4, 0)
    /\ its = << Norm(2, 0), Norm(2, 0) >>
    /\ approx = Norm(2, 0)

(***************************************************************************)
(* C7: in newton_heron 0 is absorbing: every iterate after a zero iterate  *)
(* is zero, the passes that start from a zero iterate perform no division  *)
(* (a division is performed by exactly the passes that start from a        *)
(* non-zero iterate), and the run still yields iterations + 1 elements.    *)
(***************************************************************************)
C7_ZeroIsAbsorbing ==
    (opt.method = "heron" /\ Running) =>
        /\ \A k \in 1 .. Len(its) : \A j \in k .. Len(its) :
              its[k] = Zero => its[j] = Zero
        /\ divs = Cardinality({ k \in 1 .. (Len(its) - 1) : its[k] # Zero })
        /\ steps = Len(its) - 1
        /\ (Returned /\ opt.iterations >= 0 => Len(its) = opt.iterations + 1)

C7_Witness ==
    /\ opt.method = "heron"
    /\ pc = "summary"
    /\ opt.iterations = 5
    /\ a = Norm(4, 0)
    /\ Len(its) = 6
    /\ \A k \in 1 .. 6 : its[k] = Zero
    /\ steps = 5
    /\ divs = 0

(***************************************************************************)
(* C8: every error record holds the absolute error |v - r| and the         *)
(* relative error |v - r| / |r| when r # 0 and exactly 0 when r = 0, so    *)
(* both are 0 when v = r; the table, the summary and the CSV file compute  *)
(* the same two values.                                                    *)
(***************************************************************************)
C8_ErrorRecord ==
    /\ \A k \in 1 .. Len(table) :
         LET v == table[k].val
             d == FAbs(FSub(v, reference, RunPrec))
         IN  /\ v = its[k]
             /\ table[k].abs_err = d
             /\ table[k].abs_err.m >= 0
             /\ (reference = Zero => table[k].rel_err = Zero)
             /\ (reference # Zero =>
                    table[k].rel_err = FDiv(d, FAbs(reference), RunPrec))
             /\ (v = reference =>
                    table[k].abs_err = Zero /\ table[k].rel_err = Zero)
             /\ (approx = v /\ pc \in {"csv", "done"} =>
                    /\ summary.errors.abs_err = table[k].abs_err
                    /\ summary.errors.rel_err = table[k].rel_err)
    /\ (pc \in {"table", "csv", "done"} =>
          LET d == FAbs(FSub(approx, reference, RunPrec))
          IN  /\ summary.errors.abs_err = d
              /\ summary.errors.rel_err =
                    IF reference = Zero THEN Zero
                    ELSE FDiv(d, FAbs(reference), RunPrec))
    /\ (csv # << >> => csv = table)

C8_Witness ==
    /\ pc = "done"
    /\ Len(csv) > 1
    /\ reference = Zero
    /\ \E k \in 1 .. Len(csv) : csv[k].val # Zero /\ csv[k].rel_err = Zero
    /\ approx = Zero

(***************************************************************************)
(* C9: under the reciprocal method with a manual guess g (at a precision   *)
(* of at least one digit): when g = 0 the run fails with DivisionByZero    *)
(* before any pass of the reciprocal loop and prints nothing; when g # 0   *)
(* the seed is y0 = 1 / g.                                                 *)
(***************************************************************************)
ManualGuess == ParseStr(opt.init_value, RunPrec)

\* a seed has been handed to the method dispatch
Seeded == pc = "run" \/ Running

C9_ZeroManualGuessRejected ==
    ( /\ opt.method = "recip"
      /\ opt.init_mode = "manual"
      /\ opt.init_value.kind = "dec"
      /\ opt.number.kind = "dec"
      /\ ~NegativeNumber
      /\ opt.prec_digits > 0 ) =>
        /\ (IsZero(ManualGuess) =>
              /\ ~Seeded
              /\ pc # "done"
              /\ NoIteration
              /\ NoOutput
              /\ y0 = Zero
              /\ (pc = "failed" => err = "DivisionByZero"))
        /\ (~IsZero(ManualGuess) =>
              /\ pc # "failed"
              /\ (Seeded => y0 = FDiv(One, ManualGuess, RunPrec)))

C9_Witness ==
    /\ opt.method = "recip"
    /\ opt.init_mode = "manual"
    /\ opt.init_value = Dec(FALSE, 0, 0)
    /\ opt.prec_digits > 0
    /\ pc = "failed"
    /\ err = "DivisionByZero"
    /\ reference # Zero

(***************************************************************************)
(* C10: with a method tag other than heron and recip, a run on otherwise   *)
(* valid inputs ends in the UnknownMethod failure: neither scheme is       *)
(* entered, nothing is printed, and no default method takes its place.     *)
(***************************************************************************)
ValidInputs ==
    /\ opt.number.kind = "dec"
    /\ ~opt.number.neg
    /\ opt.prec_digits > 0
    /\ opt.iterations >= 0
    /\ (opt.init_mode = "manual" => opt.init_value.kind = "dec")

C10_UnknownMethodRejected ==
    (ValidInputs /\ opt.method \notin {"heron", "recip"}) =>
        /\ ~Running
        /\ NoIteration
        /\ NoOutput
        /\ approx = Zero
        /\ (pc = "failed" => err = "UnknownMethod")
        /\ pc # "done"

C10_Witness ==
    /\ ValidInputs
    /\ opt.method = "reciprocal"
    /\ opt.number = Dec(FALSE, 2, 0)
    /\ pc = "failed"
    /\ err = "UnknownMethod"
    /\ reference # Zero
(***************************************************************************)
(* C11.  When the re-parse of the elevated reference string fails, the     *)
(* reference is the square root computed at the working precision and the  *)
(* printed result says so: a summary that presents its reference as the    *)
(* high-precision one belongs to a run whose re-parse succeeded.           *)
(***************************************************************************)
C11_DegradedReferenceVisible ==
    (Returned /\ pc # "summary" /\ opt.prec_digits > 0)
        => /\ degraded => reference = FSqrt(a, RunPrec)
           /\ summary.reference_label = "high-precision" => ~degraded

\* the number, or the manual guess of a run whose number is accepted, is
\* not a decimal numeral
MalformedInput ==
    \/ opt.number = BadStr
    \/ /\ opt.number.kind = "dec" /\ ~NegativeNumber
       /\ opt.init_mode = "manual" /\ opt.init_value = BadStr

\* the run ended inside the elevated computation of lines 192-198
ElevatedCrash == pc = "crashed" /\ prec # bits

(***************************************************************************)
(* C12.  A malformed decimal string, given as the number or as the manual  *)
(* guess, makes the run fail with ParseError before any iteration step:    *)
(* nothing is iterated, nothing is output, no value stands in for the      *)
(* malformed one, and the run can only end as a ParseError failure.        *)
(***************************************************************************)
C12_MalformedInputRejected ==
    (MalformedInput /\ opt.prec_digits > 0)
        => /\ NoIteration
           /\ NoOutput
           /\ pc \notin {"run", "done"}
           /\ pc \in {"failed", "crashed"}
                 => (pc = "failed" /\ err = "ParseError") \/ ElevatedCrash

\* u < v, exactly, for two positive values
PosLess(u, v) ==
    IF Top(u) # Top(v) THEN Top(u) < Top(v)
    ELSE LET e == MinInt(u.e, v.e)
         IN  u.m * (2 ^ (u.e - e)) < v.m * (2 ^ (v.e - e))

\* u < v, exactly
Less(u, v) ==
    IF SignInt(u.m) # SignInt(v.m) THEN SignInt(u.m) < SignInt(v.m)
    ELSE IF u.m = 0 THEN FALSE
    ELSE IF u.m > 0 THEN PosLess(u, v)
    ELSE PosLess(FNeg(v), FNeg(u))

\* u <= v, exactly
Leq(u, v) == ~Less(v, u)

\* a Newton-Heron run on a positive number, inside or after its loop
HeronRun ==
    /\ opt.method = "heron" /\ opt.prec_digits > 0
    /\ Running /\ Less(Zero, a)

\* iterate k of the run lies above the square root of a
Above(k) == Less(Zero, its[k]) /\ Less(a, ExactSquare(its[k]))

(***************************************************************************)
(* C13, as stated.  In a Newton-Heron run on a > 0, an iterate above       *)
(* sqrt(a) is followed by an iterate strictly between sqrt(a) and itself:  *)
(* a < its[k+1]^2 and its[k+1] < its[k].                                   *)
(***************************************************************************)
C13_StrictlyBetween ==
    HeronRun =>
        \A k \in 1 .. Len(its) - 1 :
            Above(k) => /\ Less(a, ExactSquare(its[k + 1]))
                        /\ Less(its[k + 1], its[k])

(***************************************************************************)
(* C13, amended.  In a Newton-Heron run on a > 0, an iterate above sqrt(a) *)
(* is followed by a positive iterate that is not greater than itself:      *)
(* 0 < its[k+1] <= its[k].  The three roundings of the step can make the   *)
(* next iterate equal to the present one, or put it below sqrt(a).         *)
(***************************************************************************)
C13_NeverIncreasing ==
    HeronRun =>
        \A k \in 1 .. Len(its) - 1 :
            Above(k) => /\ Less(Zero, its[k + 1])
                        /\ Leq(its[k + 1], its[k])

\* a finished run of two steps from above: the first step descends and
\* stays above sqrt(a), the second lands below sqrt(a)
C13_Witness ==
    /\ HeronRun /\ pc = "done" /\ Len(its) >= 3
    /\ Above(1) /\ Less(its[2], its[1])
    /\ Above(2) /\ Less(ExactSquare(its[3]), a)

\* the positions of main from the re-parse of ref_str (line 204) to the end:
\* re-parse, seeding, iteration steps, error computations, output
AfterRestore ==
    pc \in {"ref_parse", "guess", "seed", "run", "heron", "recip",
            "summary", "table", "csv", "done"}

(***************************************************************************)
(* C16.  Once set, the precision register differs from the working         *)
(* precision digits_to_bits(prec_digits) only between the elevation and    *)
(* the restore of reference building (a run that dies there stays there);  *)
(* the re-parse of the reference string, the seeding, every iteration step *)
(* and every error computation find the register equal to the working      *)
(* precision.                                                              *)
(***************************************************************************)
C16_ElevationIsTransient ==
    /\ AfterRestore => prec = digits_to_bits(opt.prec_digits)
    /\ (pc # "set_prec" /\ prec # digits_to_bits(opt.prec_digits))
           => /\ prec = digits_to_bits(opt.prec_digits) + extra_bits
              /\ pc \in {"ref_high", "restore"} \/ ElevatedCrash

\* an iteration step taken after the register went up and came back
C16_Witness ==
    /\ Running /\ steps >= 1
    /\ orig_prec = digits_to_bits(opt.prec_digits) /\ orig_prec > 0
    /\ prec = orig_prec

\* ceil(n / 2)
CeilHalf(n) == (n + 1) \div 2

\* the run computed its guess by auto_initial_guess from a positive number
AutoSeeded ==
    /\ opt.init_mode # "manual" /\ opt.prec_digits > 0
    /\ pc = "seed" \/ Seeded
    /\ Less(Zero, a)

(***************************************************************************)
(* C17.  The seed exponent (exp_floor + 2) / 2 of auto_initial_guess       *)
(* equals ceil((exp_floor + 1) / 2) for every exp_floor = floor(log2(a)),  *)
(* the negative ones of inputs a < 1 included: the automatic seed is       *)
(* 2^ceil((exp_floor + 1) / 2).                                            *)
(***************************************************************************)
C17_SeedExponentIsCeiling ==
    AutoSeeded =>
        LET e == exp_floor(a, RunPrec)
        IN  /\ seed_exp(e) = CeilHalf(e + 1)
            /\ x0 = Norm(1, CeilHalf(e + 1))

\* 4 * v, exactly
Times4(v) == Norm(v.m, v.e + 2)

(***************************************************************************)
(* C18.  For every input a > 0, below 1 as well as above, the automatic    *)
(* seed lies within one binary order of magnitude above the root:          *)
(* a <= x0^2 <= 4a.                                                        *)
(***************************************************************************)
C18_SeedWithinFactorTwo ==
    AutoSeeded => /\ Leq(a, ExactSquare(x0))
                  /\ Leq(ExactSquare(x0), Times4(a))

\* the reciprocal method with a guess that is not manual, past the seeding
RecipAuto ==
    /\ opt.method = "recip" /\ opt.init_mode # "manual"
    /\ opt.prec_digits > 0
    /\ Seeded

(***************************************************************************)
(* C19.  Under the reciprocal method with a non-manual guess mode, x0 is   *)
(* the automatic seed, which is 0 exactly when the input is 0; the seed of *)
(* the iteration is y0 = 1 when x0 = 0 and y0 = 1 / x0 otherwise, and the  *)
(* path raises no division by zero.                                        *)
(***************************************************************************)
C19_AutoReciprocalSeed ==
    RecipAuto =>
        /\ x0 = auto_initial_guess(a, RunPrec)
        /\ IsZero(x0) <=> IsZero(a)
        /\ y0 = IF IsZero(x0) THEN One ELSE FDiv(One, x0, RunPrec)
        /\ its # << >> => its[1] = y0
        /\ err = "none"

\* the reciprocal iteration running from the inverted automatic seed x0 > 1
C19_Witness ==
    /\ RecipAuto /\ pc = "recip" /\ steps >= 1
    /\ Less(One, x0) /\ Less(y0, One)
    /\ FMul(x0, y0, RunPrec) = One

(***************************************************************************)
(* C20.  For both methods the last row of the per-iteration table          *)
(* describes the reported result: its value is the final approx and its    *)
(* absolute error is the final absolute error of the summary.              *)
(***************************************************************************)
C20_LastRowIsResult ==
    (pc \in {"csv", "done"} /\ opt.prec_digits > 0)
        => /\ table # << >>
           /\ table[Len(table)].val = approx
           /\ table[Len(table)].abs_err = summary.errors.abs_err

\* a second run on the same inputs has printed its table, and its reference
\* was obtained the same way as the first run's
SecondRunDone ==
    /\ first # NoRun
    /\ pc \in {"csv", "done"}
    /\ degraded = first.degraded

(***************************************************************************)
(* C14.  The numeric output is a function of the inputs: two runs on the   *)
(* same number, precision, method, seed and iteration count produce the    *)
(* same iterate sequence, approx, reference and error records, whatever    *)
(* times they measured; and the error records computed a second time from  *)
(* the same sequence and reference (the CSV rows after the table rows) are *)
(* the same records.                                                       *)
(***************************************************************************)
C14_Deterministic ==
    /\ SecondRunDone =>
          /\ its = first.its
          /\ approx = first.approx
          /\ reference = first.reference
          /\ table = first.table
          /\ summary.errors = first.errors
    /\ (pc = "done" /\ csv # << >>) =>
          /\ Len(csv) = Len(table)
          /\ \A k \in 1 .. Len(csv) : csv[k] = table[k]

\* two finished runs of several steps that measured different times, the
\* second with its CSV file written
C14_Witness ==
    /\ SecondRunDone /\ pc = "done"
    /\ elapsed_ns # first.elapsed_ns
    /\ steps >= 2 /\ Len(first.its) >= 3
    /\ Len(csv) >= 3

\* computation c stands at a seeding, iteration or error step
AtArithmetic(c) == comp[c].pc \in {"seed", "iterate", "errors"}

\* computation c is inside its configure-to-restore section
InSection(c) == comp[c].pc \in {"parse", "elevate", "ref_high", "restore"}

C21_ResultOrError ==
    ~(result # Null /\ error # Null)

(***************************************************************************)
(* C22.  In the web form, loading is true in every state in which a        *)
(* request to /api/sqrt started by handleSubmit has not yet completed.     *)
(* (Each completion sets loading to false, so loading is false once all    *)
(* requests have completed.)                                               *)
(***************************************************************************)
C22_LoadingWhilePending ==
    /\ Pending # {} => loading
    /\ (Pending = {} /\ \E r \in Requests : reqs[r] = "done") => ~loading

=============================================================================
